---------------------------- MODULE Spec2Model ----------------------------
(***************************************************************************)
(* Model of cyclonedx-gomod's module graph builder, package                *)
(* internal/gomod (gomod.go, version.go).                                  *)
(*                                                                         *)
(* Strings are sequences of one-character strings, so that TrimSpace,      *)
(* Fields, Split, HasPrefix, Coordinates and filepath.Join are computed    *)
(* character by character as the Go code computes them.                    *)
(* An error value is the sequence of its messages, outermost first: nil is *)
(* <<>>, and fmt.Errorf("ctx: %w", err) is <<"ctx">> \o err.                *)
(* A *Module is a pair <<i, k>>: <<i, 0>> is &modules[i] and <<i, 1>> is   *)
(* modules[i].Replace; <<0, 0>> is the nil pointer.  An optional Replace   *)
(* is a sequence of zero or one record.                                    *)
(***************************************************************************)
EXTENDS Integers, Sequences, FiniteSets, TLC

VARIABLES
    \* parseModuleGraph(reader, modules)
    gModules,      \* the modules slice (records with Dependencies)
    gScanned,      \* the lines the scanner has returned so far
    gStatus,       \* "scanning" | "returned"
    gErr,          \* the returned error
    \* parseVendoredModules(path, reader)
    vPath,         \* the main module's root
    vScanned,      \* the lines the scanner has returned so far
    vModules,      \* the modules slice built so far
    vStatus,       \* "scanning" | "returned" | "panicked"

    vErr,          \* the returned error
    \* GetModuleVersion(modulePath)
    repo,          \* what go-git finds at modulePath
    verStatus,     \* "called" | "returned"
    verResult,     \* the returned version and error, and the strategies tried
    \* init() and Module.Private()
    GONOPROXY,     \* os.Getenv("GONOPROXY")
    GOPRIVATE,     \* os.Getenv("GOPRIVATE")
    PrivateModulePatterns,
    privPath,      \* the receiver's Path
    privStatus,    \* "start" | "initialized" | "returned"
    privResult,    \* the returned private and err
    \* GetModules(path) and the filesystem it runs on
    cwd,           \* the process's working directory
    rootPath,      \* the argument path: the main module's root
    goModDirs,     \* the absolute directories that hold a go.mod
    vendoring,     \* whether rootPath holds vendor/modules.txt
    pc,            \* the statement GetModules is at
    moduleSlice,   \* the local variable modules
    listed,        \* modules as parsed, before the replacement loop
    idx,           \* the loop variable i of the replacement loop, 1-based
    resolveLog,    \* one record per call of resolveLocalModule
    graphOut,      \* zero or one output of `go mod graph`
    result         \* the returned modules and error

graphVars == <<gModules, gScanned, gStatus, gErr>>
vendorVars == <<vPath, vScanned, vModules, vStatus, vErr>>
versionVars == <<repo, verStatus, verResult>>
privateVars == <<GONOPROXY, GOPRIVATE, PrivateModulePatterns, privPath, privStatus, privResult>>

envVars == <<cwd, rootPath, goModDirs, vendoring>>
mainVars == <<envVars, pc, moduleSlice, listed, idx, resolveLog, graphOut, result>>

vars == <<graphVars, vendorVars, versionVars, privateVars, mainVars>>

-----------------------------------------------------------------------------
(* Bounds *)

MaxModules == 2
MaxEdges == 2
MaxVendorLines == 2
MaxTags == 2
MaxEntries == 2
MaxGraphLines == 2

-----------------------------------------------------------------------------
(* package strings *)

IsSpace(c) == c \in {" ", "\t"}

RECURSIVE TrimLeft(_)
TrimLeft(s) ==
    IF s # <<>> /\ IsSpace(Head(s)) THEN TrimLeft(Tail(s)) ELSE s

RECURSIVE TrimRight(_)
TrimRight(s) ==
    IF s # <<>> /\ IsSpace(s[Len(s)]) THEN TrimRight(SubSeq(s, 1, Len(s) - 1)) ELSE s

TrimSpace(s) == TrimRight(TrimLeft(s))

\* the longest prefix of s without a character satisfying the separator test
RECURSIVE TakeField(_)
TakeField(s) ==
    IF s = <<>> \/ IsSpace(Head(s)) THEN <<>> ELSE <<Head(s)>> \o TakeField(Tail(s))

RECURSIVE Fields(_)
Fields(s) ==
    LET t == TrimLeft(s) IN
    IF t = <<>> THEN <<>>
    ELSE LET f == TakeField(t) IN <<f>> \o Fields(SubSeq(t, Len(f) + 1, Len(t)))

HasPrefix(s, p) == Len(s) >= Len(p) /\ SubSeq(s, 1, Len(p)) = p

TrimPrefix(s, p) == IF HasPrefix(s, p) THEN SubSeq(s, Len(p) + 1, Len(s)) ELSE s

RECURSIVE Split(_, _)
Split(s, sep) ==
    IF \E k \in 1..Len(s) : s[k] = sep
    THEN LET k == CHOOSE j \in 1..Len(s) : s[j] = sep /\ \A h \in 1..(j - 1) : s[h] # sep
         IN <<SubSeq(s, 1, k - 1)>> \o Split(SubSeq(s, k + 1, Len(s)), sep)
    ELSE <<s>>

\* strings.Join(elems, sep)
RECURSIVE StringsJoin(_, _)
StringsJoin(elems, sep) ==
    IF elems = <<>> THEN <<>>
    ELSE IF Len(elems) = 1 THEN elems[1]
    ELSE elems[1] \o sep \o StringsJoin(Tail(elems), sep)

-----------------------------------------------------------------------------
(* package path/filepath (Unix) *)

IsAbs(path) == HasPrefix(path, <<"/">>)

\* the components of Clean's result, given the components still to read
RECURSIVE CleanComponents(_, _, _)
CleanComponents(rooted, out, rest) ==
    IF rest = <<>> THEN out
    ELSE LET c == Head(rest) IN
         IF c = <<>> \/ c = <<".">> THEN CleanComponents(rooted, out, Tail(rest))
         ELSE IF c = <<".", ".">>
         THEN IF out # <<>> /\ out[Len(out)] # <<".", ".">>
              THEN CleanComponents(rooted, SubSeq(out, 1, Len(out) - 1), Tail(rest))
              ELSE IF rooted THEN CleanComponents(rooted, out, Tail(rest))
              ELSE CleanComponents(rooted, Append(out, c), Tail(rest))
         ELSE CleanComponents(rooted, Append(out, c), Tail(rest))

Clean(path) ==
    LET rooted == IsAbs(path)
        body == StringsJoin(CleanComponents(rooted, <<>>, Split(path, "/")), <<"/">>)
    IN IF rooted THEN <<"/">> \o body
       ELSE IF body = <<>> THEN <<".">> ELSE body

\* filepath.Join: the non-empty elements joined by "/", then cleaned
FilepathJoin(elems) ==
    LET nonEmpty == SelectSeq(elems, LAMBDA e : e # <<>>) IN
    IF nonEmpty = <<>> THEN <<>> ELSE Clean(StringsJoin(nonEmpty, <<"/">>))

-----------------------------------------------------------------------------
(* package util *)

\* the 0-based index of the first element equal to needle, or -1
StringSliceIndex(haystack, needle) ==
    IF \E k \in 1..Len(haystack) : haystack[k] = needle
    THEN (CHOOSE k \in 1..Len(haystack) :
              haystack[k] = needle /\ \A h \in 1..(k - 1) : haystack[h] # needle) - 1
    ELSE -1

-----------------------------------------------------------------------------
(* type Module *)

Module(dir, path, replace, version, vendored) ==
    [Dir |-> dir, Main |-> FALSE, Path |-> path, Replace |-> replace,
     Version |-> version, Dependencies |-> <<>>, Vendored |-> vendored]

NilErr == <<>>
NilModule == <<0, 0>>

Coordinates(m) ==
    IF m.Version = <<>> THEN m.Path ELSE m.Path \o <<"@">> \o m.Version

\* *p for a non-nil *Module p
Deref(modules, p) ==
    IF p[2] = 1 THEN modules[p[1]].Replace[1] ELSE modules[p[1]]

-----------------------------------------------------------------------------
(* findModule, parseModuleGraph *)

\* findModule without the Replace indirection of lines 278-280
findModule_NoReplace(modules, coordinates) ==
    IF \E i \in 1..Len(modules) : coordinates = Coordinates(modules[i])
    THEN <<CHOOSE j \in 1..Len(modules) :
              /\ coordinates = Coordinates(modules[j])
              /\ \A h \in 1..(j - 1) : coordinates # Coordinates(modules[h]), 0>>
    ELSE NilModule

findModule(modules, coordinates) ==
    IF \E i \in 1..Len(modules) : coordinates = Coordinates(modules[i])
    THEN LET i == CHOOSE j \in 1..Len(modules) :
                      /\ coordinates = Coordinates(modules[j])
                      /\ \A h \in 1..(j - 1) : coordinates # Coordinates(modules[h])
         IN IF modules[i].Replace # <<>> THEN <<i, 1>> ELSE <<i, 0>>
    ELSE NilModule

\* the append of lines 265-269 leaving out a dependency already linked
AppendDependency_Dedup(modules, dependant, dependency) ==
    LET i == dependant[1]
        once(deps) == IF \E n \in 1..Len(deps) : deps[n] = dependency
                      THEN deps ELSE Append(deps, dependency)
    IN IF dependant[2] = 1
       THEN [modules EXCEPT ![i].Replace[1].Dependencies = once(@)]
       ELSE [modules EXCEPT ![i].Dependencies = once(@)]

\* dependant.Dependencies = append(dependant.Dependencies, dependency)
AppendDependency(modules, dependant, dependency) ==
    LET i == dependant[1] IN
    IF dependant[2] = 1
    THEN [modules EXCEPT ![i].Replace[1].Dependencies = Append(@, dependency)]
    ELSE [modules EXCEPT ![i].Dependencies = Append(@, dependency)]

\* the loop body with an unresolved endpoint reported instead of skipped
parseModuleGraphLine_DanglingFatal(modules, text) ==
    LET line == TrimSpace(text)
        fields == Fields(line)
        dependant == findModule(modules, fields[1])
        dependency == findModule(modules, fields[2])
    IN IF line = <<>> THEN [err |-> NilErr, modules |-> modules]
       ELSE IF Len(fields) # 2
       THEN [err |-> <<"expected two fields per line">>, modules |-> modules]
       ELSE IF dependant = NilModule \/ dependency = NilModule
       THEN [err |-> <<"module not found">>, modules |-> modules]
       ELSE [err |-> NilErr, modules |-> AppendDependency(modules, dependant, dependency)]

\* the loop body skipping a line that does not have two fields
parseModuleGraphLine_IgnoreMalformed(modules, text) ==
    LET line == TrimSpace(text)
        fields == Fields(line)
        dependant == findModule(modules, fields[1])
        dependency == findModule(modules, fields[2])
    IN IF line = <<>> THEN [err |-> NilErr, modules |-> modules]
       ELSE IF Len(fields) # 2 THEN [err |-> NilErr, modules |-> modules]
       ELSE IF dependant = NilModule THEN [err |-> NilErr, modules |-> modules]
       ELSE IF dependency = NilModule THEN [err |-> NilErr, modules |-> modules]
       ELSE [err |-> NilErr, modules |-> AppendDependency(modules, dependant, dependency)]

\* one iteration of the scanner loop of parseModuleGraph
parseModuleGraphLine(modules, text) ==
    LET line == TrimSpace(text)
        fields == Fields(line)
        dependant == findModule(modules, fields[1])
        dependency == findModule(modules, fields[2])
    IN IF line = <<>> THEN [err |-> NilErr, modules |-> modules]
       ELSE IF Len(fields) # 2
       THEN [err |-> <<"expected two fields per line">>, modules |-> modules]
       ELSE IF dependant = NilModule THEN [err |-> NilErr, modules |-> modules]
       ELSE IF dependency = NilModule THEN [err |-> NilErr, modules |-> modules]
       ELSE [err |-> NilErr, modules |-> AppendDependency(modules, dependant, dependency)]

RECURSIVE parseModuleGraph(_, _)
parseModuleGraph(lines, modules) ==
    IF lines = <<>> THEN [err |-> NilErr, modules |-> modules]
    ELSE LET r == parseModuleGraphLine(modules, Head(lines)) IN
         IF r.err # NilErr THEN r ELSE parseModuleGraph(Tail(lines), r.modules)

-----------------------------------------------------------------------------
(* parseVendoredModules *)

\* a replacement's directory named after the replacement's own path
VendorReplaceDir_OwnPath(path, pathParent, pathReplacement) ==
    FilepathJoin(<<path, <<"v", "e", "n", "d", "o", "r">>, pathReplacement>>)

\* "Replacements are copied to their parents dir"
VendorReplaceDir(path, pathParent, pathReplacement) ==
    FilepathJoin(<<path, <<"v", "e", "n", "d", "o", "r">>, pathParent>>)

\* fields[k] for a 0-based k within range
At(fields, k) == fields[k + 1]

\* one iteration of the scanner loop of parseVendoredModules; kind is
\* "skip" (continue), "module" (append), "error" (return nil, err) or
\* "panic" (index out of range)
parseVendoredModulesLine(path, text) ==
    LET line == TrimSpace(text)
        fields == Fields(TrimPrefix(line, <<"#", " ">>))
        arrowIndex == StringSliceIndex(fields, <<"=", ">">>)
        pathParent == At(fields, 0)
        versionParent == IF arrowIndex = 2 THEN At(fields, 1) ELSE <<>>
        pathReplacement == At(fields, arrowIndex + 1)
        versionReplacement ==
            IF Len(fields) = arrowIndex + 3 THEN At(fields, arrowIndex + 2) ELSE <<>>
    IN IF ~HasPrefix(line, <<"#", " ">>) THEN [kind |-> "skip"]
       ELSE IF arrowIndex = -1
       THEN IF Len(fields) # 2
            THEN [kind |-> "error", err |-> <<"expected two fields per line">>]
            ELSE [kind |-> "module",
                  module |-> Module(FilepathJoin(<<path, <<"v", "e", "n", "d", "o", "r">>, At(fields, 0)>>),
                                    At(fields, 0), <<>>, At(fields, 1), TRUE)]
       ELSE IF arrowIndex + 1 >= Len(fields) THEN [kind |-> "panic"]
       ELSE [kind |-> "module",
             module |-> Module(<<>>, pathParent,
                               <<Module(VendorReplaceDir(path, pathParent, pathReplacement),
                                        pathReplacement, <<>>, versionReplacement, TRUE)>>,
                               versionParent, FALSE)]

\* the whole of parseVendoredModules; status is "returned" or "panicked"
RECURSIVE parseVendoredModulesFrom(_, _, _)
parseVendoredModulesFrom(path, lines, modules) ==
    IF lines = <<>> THEN [status |-> "returned", modules |-> modules, err |-> NilErr]
    ELSE LET r == parseVendoredModulesLine(path, Head(lines)) IN
         IF r.kind = "skip" THEN parseVendoredModulesFrom(path, Tail(lines), modules)
         ELSE IF r.kind = "module"
         THEN parseVendoredModulesFrom(path, Tail(lines), Append(modules, r.module))
         ELSE IF r.kind = "error"
         THEN [status |-> "returned", modules |-> <<>>, err |-> r.err]
         ELSE [status |-> "panicked", modules |-> <<>>, err |-> NilErr]

parseVendoredModules(path, lines) == parseVendoredModulesFrom(path, lines, <<>>)

-----------------------------------------------------------------------------
(* version.go.  A repository is what go-git reports for the directory:     *)
(* open (PlainOpen succeeds), head (zero or one hash: Head()), tagsOK      *)
(* (Tags() succeeds), tags (the references in iteration order), commit     *)
(* (zero or one commit: CommitObject of the head hash).                    *)

RefsTags == <<"r", "e", "f", "s", "/", "t", "a", "g", "s", "/">>

ErrRepositoryNotExists == <<"repository does not exist">>
ErrReferenceNotFound == <<"reference not found">>
ErrObjectNotFound == <<"object not found">>
ErrTags == <<"cannot iterate references">>

\* the name of the first tag ForEach stops at, "" when it stops at none
RECURSIVE FirstTagName(_, _)
FirstTagName(tags, headHash) ==
    IF tags = <<>> THEN <<>>
    ELSE IF Head(tags).hash = headHash /\ HasPrefix(Head(tags).name, RefsTags \o <<"v">>)
    THEN TrimPrefix(Head(tags).name, RefsTags)
    ELSE FirstTagName(Tail(tags), headHash)

GetVersionFromTag(r) ==
    IF ~r.open THEN [version |-> <<>>, err |-> ErrRepositoryNotExists]
    ELSE IF r.head = <<>> THEN [version |-> <<>>, err |-> ErrReferenceNotFound]
    ELSE IF ~r.tagsOK THEN [version |-> <<>>, err |-> ErrTags]
    ELSE LET tagName == FirstTagName(r.tags, r.head[1]) IN
         IF tagName = <<>> THEN [version |-> <<>>, err |-> ErrObjectNotFound]
         ELSE [version |-> tagName, err |-> NilErr]

Digit(d) == <<"0", "1", "2", "3", "4", "5", "6", "7", "8", "9">>[d + 1]

\* n in decimal, zero-padded to width digits
RECURSIVE Decimal(_, _)
Decimal(n, width) ==
    IF width = 0 THEN <<>> ELSE Decimal(n \div 10, width - 1) \o <<Digit(n % 10)>>

\* When.Format("20060102150405")
FormatTime(t) ==
    Decimal(t.year, 4) \o Decimal(t.month, 2) \o Decimal(t.day, 2)
    \o Decimal(t.hour, 2) \o Decimal(t.minute, 2) \o Decimal(t.second, 2)

AbbrevLen == 12

GetPseudoVersion(r) ==
    IF ~r.open THEN [version |-> <<>>, err |-> ErrRepositoryNotExists]
    ELSE IF r.head = <<>> THEN [version |-> <<>>, err |-> ErrReferenceNotFound]
    ELSE IF r.commit = <<>> THEN [version |-> <<>>, err |-> ErrObjectNotFound]
    ELSE LET commitHash == SubSeq(r.commit[1].hash, 1, AbbrevLen)
             commitDate == FormatTime(r.commit[1].when)
         IN [version |-> <<"v", "0", ".", "0", ".", "0", "-">> \o commitDate \o <<"-">> \o commitHash,
             err |-> NilErr]

\* GetModuleVersion reporting both failures when both strategies fail
GetModuleVersion_Combined(r) ==
    LET tag == GetVersionFromTag(r)
        pseudo == GetPseudoVersion(r)
    IN IF tag.err # NilErr
       THEN IF pseudo.err # NilErr
            THEN [version |-> <<>>, err |-> tag.err \o pseudo.err,
                  tried |-> <<"GetVersionFromTag", "GetPseudoVersion">>]
            ELSE [version |-> pseudo.version, err |-> NilErr,
                  tried |-> <<"GetVersionFromTag", "GetPseudoVersion">>]
       ELSE [version |-> tag.version, err |-> NilErr, tried |-> <<"GetVersionFromTag">>]

\* tried lists the strategies called, in call order
GetModuleVersion(r) ==
    LET tag == GetVersionFromTag(r)
        pseudo == GetPseudoVersion(r)
    IN IF tag.err # NilErr
       THEN IF pseudo.err # NilErr
            THEN [version |-> <<>>, err |-> pseudo.err,
                  tried |-> <<"GetVersionFromTag", "GetPseudoVersion">>]
            ELSE [version |-> pseudo.version, err |-> NilErr,
                  tried |-> <<"GetVersionFromTag", "GetPseudoVersion">>]
       ELSE [version |-> tag.version, err |-> NilErr, tried |-> <<"GetVersionFromTag">>]

-----------------------------------------------------------------------------
(* The filesystem and the go command, as package util and package gocmd    *)
(* see them.  A relative path names a directory under the working          *)
(* directory.                                                              *)

Abs(p) == IF IsAbs(p) THEN Clean(p) ELSE Clean(cwd \o <<"/">> \o p)

\* util.IsGoModule: the directory holds a go.mod
IsGoModule(p) == Abs(p) \in goModDirs

\* util.IsVendoring: the directory holds vendor/modules.txt
IsVendoring(p) == vendoring

\* util.GetModuleCacheDir
GetModuleCacheDir == <<"/", "c">>

\* the module path declared by the go.mod of an absolute directory
DeclaredPath(dir) ==
    IF dir = <<"/", "p">> THEN <<"m">>
    ELSE IF dir = <<"/", "w">> THEN <<"n">>
    ELSE IF dir = <<"/", "p", "/", "l">> THEN <<"x">>
    ELSE IF dir = <<"/", "w", "/", "l">> THEN <<"y">>
    ELSE <<"r">>

\* gocmd.GetModule followed by the JSON decoding of its output
GetModule(p) ==
    [Dir |-> Abs(p), Main |-> TRUE, Path |-> DeclaredPath(Abs(p)), Replace |-> <<>>,
     Version |-> <<>>, Dependencies |-> <<>>, Vendored |-> FALSE]

ErrNoGoModule == <<"not a Go module">>
ErrGoCommand == <<"exit status 1">>

-----------------------------------------------------------------------------
(* resolveLocalModule.  getModuleOK is whether gocmd.GetModule and the     *)
(* decoding succeed, r the repository at module.Dir.  reached names the    *)
(* return statement taken.                                                 *)

\* resolveLocalModule failing when the version cannot be resolved
resolveLocalModule_VersionFatal(mainModulePath, module, getModuleOK, r) ==
    LET modulePath == IF IsAbs(module.Path) THEN module.Path
                      ELSE FilepathJoin(<<mainModulePath, module.Path>>)
        renamed == [module EXCEPT !.Path = GetModule(modulePath).Path]
        version == GetModuleVersion(r)
    IN IF IsGoModule(module.Dir) /\ HasPrefix(module.Dir, GetModuleCacheDir)
       THEN [err |-> NilErr, module |-> module, reached |-> "cache"]
       ELSE IF ~IsGoModule(modulePath)
       THEN [err |-> ErrNoGoModule, module |-> module, reached |-> "notModule"]
       ELSE IF ~getModuleOK
       THEN [err |-> ErrGoCommand, module |-> module, reached |-> "getModule"]
       ELSE IF module.Version # <<>>
       THEN [err |-> NilErr, module |-> renamed, reached |-> "declared"]
       ELSE IF version.err = NilErr
       THEN [err |-> NilErr, module |-> [renamed EXCEPT !.Version = version.version],
             reached |-> "version"]
       ELSE [err |-> version.err, module |-> renamed, reached |-> "version"]

resolveLocalModule(mainModulePath, module, getModuleOK, r) ==
    LET modulePath == IF IsAbs(module.Path) THEN module.Path
                      ELSE FilepathJoin(<<mainModulePath, module.Path>>)
        renamed == [module EXCEPT !.Path = GetModule(modulePath).Path]
        version == GetModuleVersion(r)
    IN IF IsGoModule(module.Dir) /\ HasPrefix(module.Dir, GetModuleCacheDir)
       THEN [err |-> NilErr, module |-> module, reached |-> "cache"]
       ELSE IF ~IsGoModule(modulePath)
       THEN [err |-> ErrNoGoModule, module |-> module, reached |-> "notModule"]
       ELSE IF ~getModuleOK
       THEN [err |-> ErrGoCommand, module |-> module, reached |-> "getModule"]
       ELSE IF module.Version # <<>>
       THEN [err |-> NilErr, module |-> renamed, reached |-> "declared"]
       ELSE IF version.err = NilErr
       THEN [err |-> NilErr, module |-> [renamed EXCEPT !.Version = version.version],
             reached |-> "version"]
       ELSE [err |-> NilErr, module |-> renamed, reached |-> "version"]

\* the replacement loop leaving before the last module
ResolveLoopDone_OffByOne(i, ms) == i >= Len(ms)

\* for i := range modules
ResolveLoopDone(i, ms) == i > Len(ms)

\* the loop's filter: nothing to resolve for modules[i]
SkipsModule(m) == m.Replace = <<>> \/ ~IsGoModule(m.Replace[1].Path)

\* fmt.Errorf(context + ": %w", err)
Wrap(context, err) == <<context>> \o err

NoResult == [modules |-> <<>>, err |-> NilErr]

-----------------------------------------------------------------------------
(* path.Match for patterns of literals, '*', '?' and '[...]' classes of    *)
(* literals.  A malformed pattern gives ErrBadPattern for every name.      *)

ErrBadPattern == <<"syntax error in pattern">>

\* the index of the ']' closing the class opened at pattern[k], 0 if none;
\* a class holds at least one character
ClassEnd(pattern, k) ==
    IF \E j \in (k + 2)..Len(pattern) : pattern[j] = "]"
    THEN CHOOSE j \in (k + 2)..Len(pattern) :
             pattern[j] = "]" /\ \A h \in (k + 2)..(j - 1) : pattern[h] # "]"
    ELSE 0

RECURSIVE Malformed(_)
Malformed(pattern) ==
    IF pattern = <<>> THEN FALSE
    ELSE IF Head(pattern) = "["
    THEN LET e == ClassEnd(pattern, 1) IN
         IF e = 0 THEN TRUE ELSE Malformed(SubSeq(pattern, e + 1, Len(pattern)))
    ELSE Malformed(Tail(pattern))

RECURSIVE Glob(_, _)
Glob(pattern, name) ==
    IF pattern = <<>> THEN name = <<>>
    ELSE LET c == Head(pattern) IN
         IF c = "*"
         THEN \E k \in 0..Len(name) :
                 /\ \A h \in 1..k : name[h] # "/"
                 /\ Glob(Tail(pattern), SubSeq(name, k + 1, Len(name)))
         ELSE IF c = "?"
         THEN name # <<>> /\ Head(name) # "/" /\ Glob(Tail(pattern), Tail(name))
         ELSE IF c = "["
         THEN LET e == ClassEnd(pattern, 1) IN
              /\ name # <<>>
              /\ \E h \in 2..(e - 1) : pattern[h] = Head(name)
              /\ Glob(SubSeq(pattern, e + 1, Len(pattern)), Tail(name))
         ELSE name # <<>> /\ Head(name) = c /\ Glob(Tail(pattern), Tail(name))

PathMatch(pattern, name) ==
    IF Malformed(pattern) THEN [matched |-> FALSE, err |-> ErrBadPattern]
    ELSE [matched |-> Glob(pattern, name), err |-> NilErr]

-----------------------------------------------------------------------------
(* init, Module.Private *)

SeqRange(s) == { s[k] : k \in 1..Len(s) }

\* the keys of the patterns map after both loops of init
PatternKeys(noproxy, private) ==
    { TrimSpace(pattern) : pattern \in SeqRange(Split(noproxy, ",")) }
    \cup { TrimSpace(pattern) : pattern \in SeqRange(Split(private, ",")) }

\* the slices init can leave in PrivateModulePatterns: the non-empty keys in
\* any order, because the iteration order of a Go map is unspecified
init(noproxy, private) ==
    LET keys == PatternKeys(noproxy, private) \ {<<>>} IN
    { order \in [1..Cardinality(keys) -> keys] :
        \A i, j \in 1..Cardinality(keys) : order[i] = order[j] => i = j }

\* the loop of Private from the given pattern on; the named results keep the
\* values of the last iteration
RECURSIVE PrivateFrom(_, _, _)
PrivateFrom(patterns, path, last) ==
    IF patterns = <<>> THEN last
    ELSE LET r == PathMatch(Head(patterns), path)
             cur == [private |-> r.matched, err |-> r.err]
         IN IF cur.private \/ cur.err # NilErr THEN cur
            ELSE PrivateFrom(Tail(patterns), path, cur)

Private(patterns, path) ==
    PrivateFrom(patterns, path, [private |-> FALSE, err |-> NilErr])

-----------------------------------------------------------------------------
(* Inputs of parseVendoredModules: lines of vendor/modules.txt *)

VendorRoots == { <<"/", "p">>, <<".">> }

VendorLines ==
    { <<"#", " ", "a", " ", "1">>,
      <<" ", "#", " ", "b", "\t", "2", " ">>,
      <<"#", " ", "a">>,
      <<"#", " ", "a", " ", "1", " ", "x">>,
      <<"#", " ", "a", " ", "1", " ", "=", ">", " ", ".", ".", "/", "l">>,
      <<"#", " ", "a", " ", "=", ">", " ", ".", ".", "/", "l">>,
      <<"#", " ", "a", " ", "1", " ", "=", ">", " ", "b", " ", "2">>,
      <<"#", " ", "a", " ", "=", ">", " ", "b">>,
      <<"#", " ", "a", " ", "1", " ", "=", ">">>,
      <<"#", " ", "=", ">", " ", "b", " ", "2", " ", "x">>,
      <<"#", " ", "a", " ", "1", " ", "x", " ", "=", ">", " ", "b">>,
      <<"#", " ", "a", " ", "1", " ", "=", ">", " ", "b", " ", "2", " ", "x">>,
      <<"#", "#", " ", "e", "x", "p", "l", "i", "c", "i", "t">>,
      <<"a", "/", "p", "k", "g">>,
      <<"#">>,
      <<>> }

-----------------------------------------------------------------------------
(* parseVendoredModules as a process, one scanned line at a time *)

OnlyVendor == UNCHANGED <<graphVars, versionVars, privateVars, mainVars>>
OnlyGraph == UNCHANGED <<vendorVars, versionVars, privateVars, mainVars>>
OnlyVersion == UNCHANGED <<graphVars, vendorVars, privateVars, mainVars>>
OnlyPrivate == UNCHANGED <<graphVars, vendorVars, versionVars, mainVars>>
OnlyMain == UNCHANGED <<graphVars, vendorVars, versionVars, privateVars>>

VendorScan ==
    /\ vStatus = "scanning"
    /\ Len(vScanned) < MaxVendorLines
    /\ \E text \in VendorLines :
          LET r == parseVendoredModulesLine(vPath, text) IN
          /\ vScanned' = Append(vScanned, text)
          /\ vModules' = IF r.kind = "module" THEN Append(vModules, r.module)
                         ELSE IF r.kind = "skip" THEN vModules ELSE <<>>
          /\ vErr' = IF r.kind = "error" THEN r.err ELSE NilErr
          /\ vStatus' = IF r.kind = "error" THEN "returned"
                        ELSE IF r.kind = "panic" THEN "panicked" ELSE "scanning"
    /\ UNCHANGED vPath
    /\ OnlyVendor

VendorEOF ==
    /\ vStatus = "scanning"
    /\ vStatus' = "returned"
    /\ UNCHANGED <<vPath, vScanned, vModules, vErr>>
    /\ OnlyVendor

-----------------------------------------------------------------------------
(* Inputs of parseModuleGraph: module records as `go list -m` and the      *)
(* vendor manifest give them (one record per coordinate), and the lines of *)
(* `go mod graph`.                                                         *)

Mod(p, v, rep) == Module(<<>>, p, rep, v, FALSE)

Repl(p, v) == <<Module(<<>>, p, <<>>, v, FALSE)>>

GraphModuleRecords ==
    { Mod(<<"a">>, <<"1">>, rep) : rep \in { <<>>, Repl(<<"r">>, <<>>), Repl(<<"b">>, <<>>) } }
    \cup { Mod(<<"b">>, <<>>, rep) : rep \in { <<>>, Repl(<<"r">>, <<>>) } }
    \cup { Mod(<<"a">>, <<>>, Repl(<<"r">>, <<"2">>)) }

UniqueCoordinates(ms) ==
    \A i, j \in 1..Len(ms) : Coordinates(ms[i]) = Coordinates(ms[j]) => i = j

GraphModuleLists ==
    { ms \in UNION { [1..n -> GraphModuleRecords] : n \in 1..MaxModules } :
        UniqueCoordinates(ms) }

EdgeCoordinates == { <<"a", "@", "1">>, <<"b">>, <<"r">> }

EdgeLines ==
    { c \o <<" ">> \o d : c, d \in EdgeCoordinates }
    \cup { <<" ", "a", "@", "1", "\t", " ", "b", " ">>,
           <<" ">>,
           <<"a", "@", "1">>,
           <<"a", " ", "b", " ", "b">> }

-----------------------------------------------------------------------------
(* parseModuleGraph as a process: the scanner hands over one line at a     *)
(* time until the reader is exhausted or a line is malformed.              *)

GraphScan ==
    /\ gStatus = "scanning"
    /\ Len(gScanned) < MaxEdges
    /\ \E text \in EdgeLines :
          LET r == parseModuleGraphLine(gModules, text) IN
          /\ gScanned' = Append(gScanned, text)
          /\ gModules' = r.modules
          /\ gErr' = r.err
          /\ gStatus' = IF r.err # NilErr THEN "returned" ELSE "scanning"
    /\ OnlyGraph

GraphEOF ==
    /\ gStatus = "scanning"
    /\ gStatus' = "returned"
    /\ UNCHANGED <<gModules, gScanned, gErr>>
    /\ OnlyGraph

-----------------------------------------------------------------------------
(* Inputs of GetModuleVersion: repositories *)

Hex == <<"0", "1", "2", "3", "4", "5", "6", "7", "8", "9", "a", "b", "c", "d", "e", "f">>

HashLen == 40

HexHash(seed) == [k \in 1..HashLen |-> Hex[((k * seed) % 16) + 1]]

HeadHash == HexHash(7)
OtherHash == HexHash(3)

TagNames ==
    { RefsTags \o <<"v", "1">>, RefsTags \o <<"v", "2">>, RefsTags \o <<"x">> }

Tags == [hash : {HeadHash, OtherHash}, name : TagNames]

TagLists == UNION { [1..n -> Tags] : n \in 0..MaxTags }

Times ==
    { [year |-> 2021, month |-> 3, day |-> 9, hour |-> 7, minute |-> 5, second |-> 0],
      [year |-> 2020, month |-> 12, day |-> 31, hour |-> 23, minute |-> 59, second |-> 58] }

Commits == { <<>> } \cup { <<[hash |-> HeadHash, when |-> t]>> : t \in Times }

Repos ==
    { [open |-> FALSE, head |-> <<>>, tagsOK |-> FALSE, tags |-> <<>>, commit |-> <<>>],
      [open |-> TRUE, head |-> <<>>, tagsOK |-> TRUE, tags |-> <<>>, commit |-> <<>>] }
    \cup { [open |-> TRUE, head |-> <<HeadHash>>, tagsOK |-> FALSE, tags |-> <<>>, commit |-> c] :
             c \in Commits }
    \cup { [open |-> TRUE, head |-> <<HeadHash>>, tagsOK |-> TRUE, tags |-> ts, commit |-> c] :
             ts \in TagLists, c \in Commits }

NoVersionResult == [version |-> <<>>, err |-> NilErr, tried |-> <<>>]

-----------------------------------------------------------------------------
(* Inputs of init and Private: environment values and module paths *)

Entries ==
    { <<>>, <<"a", "/", "*">>, <<" ", "a", "/", "*">>, <<"[">>, <<"[", "a", "b", "]">> }

EnvValues ==
    { StringsJoin(es, <<",">>) : es \in UNION { [1..n -> Entries] : n \in 1..MaxEntries } }

PrivatePaths == { <<"a", "/", "x">>, <<"b">>, <<"c">> }

NoPrivateResult == [private |-> FALSE, err |-> NilErr]

-----------------------------------------------------------------------------
(* GetModuleVersion and Private as processes *)

CallGetModuleVersion ==
    /\ verStatus = "called"
    /\ verResult' = GetModuleVersion(repo)
    /\ verStatus' = "returned"
    /\ UNCHANGED repo
    /\ OnlyVersion

PackageInit ==
    /\ privStatus = "start"
    /\ PrivateModulePatterns' \in init(GONOPROXY, GOPRIVATE)
    /\ privStatus' = "initialized"
    /\ UNCHANGED <<GONOPROXY, GOPRIVATE, privPath, privResult>>
    /\ OnlyPrivate

CallPrivate ==
    /\ privStatus = "initialized"
    /\ privResult' = Private(PrivateModulePatterns, privPath)
    /\ privStatus' = "returned"
    /\ UNCHANGED <<GONOPROXY, GOPRIVATE, PrivateModulePatterns, privPath>>
    /\ OnlyPrivate

-----------------------------------------------------------------------------
(* Inputs of GetModules: the working directory, the path argument, the     *)
(* go.mod files on disk, and what the go command prints.                   *)

WorkingDirs == { <<"/", "p">>, <<"/", "w">> }

RootPaths == { <<".">>, <<"/", "p">> }

GoModDirSets == { S \cup { <<"/", "w">>, <<"/", "c", "/", "r">> } : S \in SUBSET { <<"/", "p">>, <<"/", "p", "/", "l">>, <<"/", "w", "/", "l">> } }

\* a replacement by a local directory, as `go list -m -json` reports it: Path
\* as written in go.mod, Dir resolved against the main module's root
LocalReplace(p, v) ==
    <<Module(IF IsAbs(p) THEN Clean(p) ELSE Clean(Abs(rootPath) \o <<"/">> \o p), p, <<>>, v, FALSE)>>

ListedA ==
    { Module(<<"/", "c", "/", "a">>, <<"a">>, rep, <<"1">>, FALSE) :
        rep \in { <<>>,
                  LocalReplace(<<".", "/", "l">>, <<>>),
                  LocalReplace(<<"/", "p", "/", "l">>, <<>>),
                  <<Module(<<"/", "c", "/", "r">>, <<"r">>, <<>>, <<"2">>, FALSE)>>,
                  LocalReplace(<<"/", "c", "/", "r">>, <<>>) } }

ListedB ==
    { Module(<<"/", "c", "/", "b">>, <<"b">>, rep, <<"1">>, FALSE) :
        rep \in { <<>>, LocalReplace(<<".", "/", "l">>, <<>>), LocalReplace(<<"/", "p", "/", "l">>, <<"2">>) } }

\* the parsed output of `go list -m -json all`: the main module first
ListedModuleLists ==
    { <<GetModule(rootPath), a>> : a \in ListedA }
    \cup { <<GetModule(rootPath), a, b>> : a \in ListedA, b \in ListedB }

VendorManifests ==
    { <<<<"#", " ", "a", " ", "1">>, <<"a", "/", "p", "k", "g">>>>,
      <<<<"#", " ", "a", " ", "1", " ", "=", ">", " ", ".", "/", "l">>, <<"#", " ", "b", " ", "1">>>>,
      <<<<"#", "#", " ", "e", "x", "p", "l", "i", "c", "i", "t">>, <<"#", " ", "a", " ", "1", " ", "=", ">", " ", "/", "p", "/", "l">>>>,
      <<<<"#", " ", "a">>>>,
      <<<<"#", " ", "a", " ", "1", " ", "=", ">">>>> }

RepoSamples ==
    { [open |-> FALSE, head |-> <<>>, tagsOK |-> FALSE, tags |-> <<>>, commit |-> <<>>],
      [open |-> TRUE, head |-> <<HeadHash>>, tagsOK |-> TRUE,
       tags |-> <<[hash |-> HeadHash, name |-> RefsTags \o <<"v", "1">>]>>,
       commit |-> <<[hash |-> HeadHash,
                     when |-> [year |-> 2021, month |-> 3, day |-> 9,
                               hour |-> 7, minute |-> 5, second |-> 0]]>>] }

GraphOutLines ==
    { <<"m", " ", "a", "@", "1">>, <<"a", "@", "1", " ", "b", "@", "1">>, <<"a", "@", "1">>,
      <<"z", " ", "b", "@", "1">>, <<"m", " ", "a", "@", "1", " ", "z">> }

GraphOutputs == UNION { [1..n -> GraphOutLines] : n \in 0..MaxGraphLines }

-----------------------------------------------------------------------------
(* GetModules as a process *)

Return(ms, err) ==
    /\ result' = [modules |-> ms, err |-> err]
    /\ pc' = "done"

\* lines 97-108
GetModulesEnter ==
    /\ pc = "GetModules"
    /\ IF ~IsGoModule(rootPath)
       THEN Return(<<>>, ErrNoGoModule)
       ELSE /\ pc' = IF ~IsVendoring(rootPath) THEN "ListModules" ELSE "ListVendoredModules"
            /\ UNCHANGED result
    /\ UNCHANGED <<envVars, moduleSlice, listed, idx, resolveLog, graphOut>>
    /\ OnlyMain

\* lines 109-116
ListModules ==
    /\ pc = "ListModules"
    /\ \/ /\ Return(<<>>, Wrap("listing modules failed", ErrGoCommand))
          /\ UNCHANGED <<moduleSlice, listed>>
       \/ /\ Return(<<>>, Wrap("parsing modules failed", <<"unexpected EOF">>))
          /\ UNCHANGED <<moduleSlice, listed>>
       \/ \E ms \in ListedModuleLists :
             /\ moduleSlice' = ms
             /\ listed' = ms
             /\ pc' = "resolve"
             /\ UNCHANGED result
    /\ UNCHANGED <<envVars, idx, resolveLog, graphOut>>
    /\ OnlyMain

\* lines 118-125
ListVendoredModules ==
    /\ pc = "ListVendoredModules"
    /\ \/ /\ Return(<<>>, Wrap("listing vendored modules failed", ErrGoCommand))
          /\ UNCHANGED moduleSlice
       \/ \E manifest \in VendorManifests :
             LET r == parseVendoredModules(rootPath, manifest) IN
             IF r.status = "panicked"
             THEN pc' = "panicked" /\ UNCHANGED <<moduleSlice, result>>
             ELSE IF r.err # NilErr
             THEN Return(<<>>, Wrap("parsing vendored modules failed", r.err))
                  /\ UNCHANGED moduleSlice
             ELSE /\ moduleSlice' = r.modules
                  /\ pc' = "GetModule"
                  /\ UNCHANGED result
    /\ UNCHANGED <<envVars, listed, idx, resolveLog, graphOut>>
    /\ OnlyMain

\* lines 129-139
GetMainModule ==
    /\ pc = "GetModule"
    /\ \/ /\ Return(<<>>, Wrap("listing main module failed", ErrGoCommand))
          /\ UNCHANGED <<moduleSlice, listed>>
       \/ /\ Return(<<>>, Wrap("parsing main module failed", <<"unexpected EOF">>))
          /\ UNCHANGED <<moduleSlice, listed>>
       \/ /\ moduleSlice' = <<GetModule(rootPath)>> \o moduleSlice
          /\ listed' = moduleSlice'
          /\ pc' = "resolve"
          /\ UNCHANGED result
    /\ UNCHANGED <<envVars, idx, resolveLog, graphOut>>
    /\ OnlyMain

\* one iteration of the loop of lines 144-152
ResolveStep ==
    /\ pc = "resolve"
    /\ ~ResolveLoopDone(idx, moduleSlice)
    /\ IF SkipsModule(moduleSlice[idx])
       THEN /\ idx' = idx + 1
            /\ UNCHANGED <<pc, moduleSlice, resolveLog, result>>
       ELSE \E getModuleOK \in BOOLEAN, r \in RepoSamples :
               LET before == moduleSlice[idx].Replace[1]
                   out == resolveLocalModule(rootPath, before, getModuleOK, r)
               IN /\ resolveLog' = Append(resolveLog,
                         [i |-> idx, before |-> before, after |-> out.module, err |-> out.err,
                          reached |-> out.reached, getModuleOK |-> getModuleOK, repo |-> r])
                  /\ moduleSlice' = [moduleSlice EXCEPT ![idx].Replace[1] = out.module]
                  /\ IF out.err # NilErr
                     THEN Return(<<>>, Wrap("resolving local module failed", out.err))
                          /\ UNCHANGED idx
                     ELSE idx' = idx + 1 /\ UNCHANGED <<pc, result>>
    /\ UNCHANGED <<envVars, listed, graphOut>>
    /\ OnlyMain

\* lines 154-163
ModuleGraph ==
    /\ pc = "resolve"
    /\ ResolveLoopDone(idx, moduleSlice)
    /\ \/ /\ Return(<<>>, Wrap("listing module graph failed", ErrGoCommand))
          /\ UNCHANGED <<moduleSlice, graphOut>>
       \/ \E lines \in GraphOutputs :
             LET r == parseModuleGraph(lines, moduleSlice) IN
             /\ graphOut' = <<lines>>
             /\ moduleSlice' = r.modules
             /\ IF r.err # NilErr
                THEN Return(<<>>, Wrap("parsing module graph failed", r.err))
                ELSE Return(r.modules, NilErr)
    /\ UNCHANGED <<envVars, listed, idx, resolveLog>>
    /\ OnlyMain

-----------------------------------------------------------------------------
(* Specifications *)

GraphIdle ==
    /\ gModules = <<>>
    /\ gScanned = <<>>
    /\ gStatus = "idle"
    /\ gErr = NilErr

VendorIdle ==
    /\ vPath = <<>>
    /\ vScanned = <<>>
    /\ vModules = <<>>
    /\ vStatus = "idle"
    /\ vErr = NilErr

VersionIdle ==
    /\ repo = [open |-> FALSE, head |-> <<>>, tagsOK |-> FALSE, tags |-> <<>>, commit |-> <<>>]
    /\ verStatus = "idle"
    /\ verResult = NoVersionResult

PrivateIdle ==
    /\ GONOPROXY = <<>>
    /\ GOPRIVATE = <<>>
    /\ PrivateModulePatterns = <<>>
    /\ privPath = <<>>
    /\ privStatus = "idle"
    /\ privResult = NoPrivateResult

MainIdle ==
    /\ cwd = <<"/">>
    /\ rootPath = <<".">>
    /\ goModDirs = {}
    /\ vendoring = FALSE
    /\ pc = "idle"
    /\ moduleSlice = <<>>
    /\ listed = <<>>
    /\ idx = 1
    /\ resolveLog = <<>>
    /\ graphOut = <<>>
    /\ result = NoResult

\* GetModules(path)
Init ==
    /\ cwd \in WorkingDirs
    /\ rootPath \in RootPaths
    /\ goModDirs \in GoModDirSets
    /\ vendoring \in BOOLEAN
    /\ pc = "GetModules"
    /\ moduleSlice = <<>>
    /\ listed = <<>>
    /\ idx = 1
    /\ resolveLog = <<>>
    /\ graphOut = <<>>
    /\ result = NoResult
    /\ GraphIdle /\ VendorIdle /\ VersionIdle /\ PrivateIdle

Next ==
    \/ GetModulesEnter
    \/ ListModules
    \/ ListVendoredModules
    \/ GetMainModule
    \/ ResolveStep
    \/ ModuleGraph

Spec == Init /\ [][Next]_vars

\* parseModuleGraph(reader, modules)
InitGraph ==
    /\ gModules \in GraphModuleLists
    /\ gScanned = <<>>
    /\ gStatus = "scanning"
    /\ gErr = NilErr
    /\ VendorIdle /\ VersionIdle /\ PrivateIdle /\ MainIdle

NextGraph == GraphScan \/ GraphEOF

SpecGraph == InitGraph /\ [][NextGraph]_vars

\* parseVendoredModules(path, reader)
InitVendor ==
    /\ vPath \in VendorRoots
    /\ vScanned = <<>>
    /\ vModules = <<>>
    /\ vStatus = "scanning"
    /\ vErr = NilErr
    /\ GraphIdle /\ VersionIdle /\ PrivateIdle /\ MainIdle

NextVendor == VendorScan \/ VendorEOF

SpecVendor == InitVendor /\ [][NextVendor]_vars

\* GetModuleVersion(modulePath)
InitVersion ==
    /\ repo \in Repos
    /\ verStatus = "called"
    /\ verResult = NoVersionResult
    /\ GraphIdle /\ VendorIdle /\ PrivateIdle /\ MainIdle

NextVersion == CallGetModuleVersion

SpecVersion == InitVersion /\ [][NextVersion]_vars

\* package initialization, then Module.Private()
InitPrivate ==
    /\ GONOPROXY \in EnvValues
    /\ GOPRIVATE \in EnvValues
    /\ PrivateModulePatterns = <<>>
    /\ privPath \in PrivatePaths
    /\ privStatus = "start"
    /\ privResult = NoPrivateResult
    /\ GraphIdle /\ VendorIdle /\ VersionIdle /\ MainIdle

NextPrivate == PackageInit \/ CallPrivate

SpecPrivate == InitPrivate /\ [][NextPrivate]_vars

-----------------------------------------------------------------------------
(* Properties of parseModuleGraph *)

\* the whitespace-separated words of every scanned line, read off the text
ScannedWords == [k \in 1..Len(gScanned) |-> Fields(gScanned[k])]

\* coordinate c is the coordinate of a parsed module record
InModuleSet(c) == \E i \in 1..Len(gModules) : Coordinates(gModules[i]) = c

\* every Dependencies list of the graph, by owner
Owners ==
    { <<i, 0>> : i \in 1..Len(gModules) }
    \cup { <<i, 1>> : i \in { j \in 1..Len(gModules) : gModules[j].Replace # <<>> } }

DependenciesOf(p) == Deref(gModules, p).Dependencies

Occurrences(s, x) == Cardinality({ n \in 1..Len(s) : s[n] = x })

RECURSIVE SumOver(_, _)
SumOver(S, f) ==
    IF S = {} THEN 0
    ELSE LET x == CHOOSE y \in S : TRUE IN f[x] + SumOver(S \ {x}, f)

TotalDependencies == SumOver(Owners, [p \in Owners |-> Len(DependenciesOf(p))])

\* the two-word lines of w whose two coordinates both belong to the module set
LinkableLines(w) ==
    { k \in DOMAIN w : Len(w[k]) = 2 /\ InModuleSet(w[k][1]) /\ InModuleSet(w[k][2]) }

DanglingLines(w) ==
    { k \in DOMAIN w : Len(w[k]) = 2 /\ ~(InModuleSet(w[k][1]) /\ InModuleSet(w[k][2])) }

\* C1: for every module record with Replace set, a lookup by its original
\* coordinate yields the Replace record; every edge line naming that
\* coordinate is linked from or to the Replace record and never the original;
\* no Dependencies list holds a record with Replace set, and a record with
\* Replace set never owns a dependency.
C1_ReplacementPrecedence ==
    LET w == ScannedWords
        linkable == LinkableLines(w)
        owners == Owners
    IN /\ \A i \in 1..Len(gModules) :
             gModules[i].Replace # <<>> =>
                LET c == Coordinates(gModules[i]) IN
                /\ findModule(gModules, c) = <<i, 1>>
                /\ gModules[i].Dependencies = <<>>
                /\ Len(gModules[i].Replace[1].Dependencies)
                      = Cardinality({ k \in linkable : w[k][1] = c })
                /\ SumOver(owners, [p \in owners |-> Occurrences(DependenciesOf(p), <<i, 1>>)])
                      = Cardinality({ k \in linkable : w[k][2] = c })
       /\ \A p \in owners : \A n \in 1..Len(DependenciesOf(p)) :
             LET d == DependenciesOf(p)[n] IN d[2] = 0 => gModules[d[1]].Replace = <<>>

\* a replaced module's coordinate was named on both sides and linked
C1_Witness ==
    \E i \in 1..Len(gModules) :
       /\ gModules[i].Replace # <<>>
       /\ gModules[i].Replace[1].Dependencies # <<>>
       /\ \E p \in Owners : p # <<i, 1>> /\ Occurrences(DependenciesOf(p), <<i, 1>>) > 0

\* C2: when every non-blank scanned line has exactly two fields,
\* parseModuleGraph reports no error although lines name coordinates absent
\* from the module set; those lines add no dependency and exactly the
\* resolvable lines are linked.
C2_DanglingEdgesDropped ==
    LET w == ScannedWords IN
    (\A k \in DOMAIN w : Len(w[k]) \in {0, 2}) =>
        /\ gErr = NilErr
        /\ TotalDependencies = Cardinality(LinkableLines(w))

\* a dangling line was scanned before a line that was linked, and the parse
\* returned without error
C2_Witness ==
    LET w == ScannedWords IN
    /\ gStatus = "returned"
    /\ gErr = NilErr
    /\ \E k \in DanglingLines(w) : \E h \in LinkableLines(w) : k < h
    /\ TotalDependencies > 0

\* the module a coordinate stands for: the record listed under that
\* coordinate, or the record replacing it; NilModule when none is listed
ResolvedModule(c) ==
    IF InModuleSet(c)
    THEN LET i == CHOOSE j \in 1..Len(gModules) : Coordinates(gModules[j]) = c
         IN <<i, IF gModules[i].Replace # <<>> THEN 1 ELSE 0>>
    ELSE NilModule

\* the dependency-side modules of the lines of w whose dependant stands for
\* p and whose dependency is listed too, in the order of the lines
ExpectedDependencies(w, p) ==
    LET linked(k) == /\ Len(w[k]) = 2
                     /\ ResolvedModule(w[k][1]) = p
                     /\ ResolvedModule(w[k][2]) # NilModule
        lines == SelectSeq([k \in 1..Len(w) |-> k], linked)
    IN [n \in 1..Len(lines) |-> ResolvedModule(w[lines[n]][2])]

\* C11: when every non-blank scanned line has exactly two fields, every
\* module's Dependencies is, in input order and with repetitions kept, the
\* sequence of the resolved dependency-side modules of exactly the lines
\* whose dependant resolves to that module and whose dependency resolves.
C11_EdgeOrderAndDuplicates ==
    LET w == ScannedWords IN
    (\A k \in DOMAIN w : Len(w[k]) \in {0, 2}) =>
        \A p \in Owners : DependenciesOf(p) = ExpectedDependencies(w, p)

\* the same edge line was scanned twice and its dependency is linked twice
C11_Witness ==
    LET w == ScannedWords IN
    /\ gStatus = "returned"
    /\ gErr = NilErr
    /\ \E k, h \in DOMAIN w :
          /\ k < h
          /\ Len(w[k]) = 2
          /\ w[k] = w[h]
          /\ \E p \in Owners :
                /\ ResolvedModule(w[k][1]) = p
                /\ Occurrences(DependenciesOf(p), ResolvedModule(w[k][2])) >= 2

\* two lines with the same dependant and different dependencies were linked
\* in the order they were scanned
EdgeOrderReached ==
    LET w == ScannedWords IN
    \E p \in Owners :
       /\ Len(DependenciesOf(p)) >= 2
       /\ DependenciesOf(p)[1] # DependenciesOf(p)[2]
       /\ DependenciesOf(p) = ExpectedDependencies(w, p)

-----------------------------------------------------------------------------
(* Properties of parseVendoredModules *)

\* scanned vendor line k begins with "# "
IsModuleLine(k) == HasPrefix(TrimSpace(vScanned[k]), <<"#", " ">>)

\* the words of scanned vendor line k after its "# " marker
VendorWords(k) == Fields(TrimPrefix(TrimSpace(vScanned[k]), <<"#", " ">>))

Arrow == <<"=", ">">>

\* `Path Version`, or `Path [Version] => Path [Version]`
RecognizedShape(w) ==
    LET arrows == { n \in 1..Len(w) : w[n] = Arrow } IN
    \/ arrows = {} /\ Len(w) = 2
    \/ /\ arrows # {}
       /\ LET first == CHOOSE n \in arrows : \A h \in arrows : n <= h IN
          /\ first - 1 \in {1, 2}
          /\ Len(w) - first \in {1, 2}

\* C4: every scanned "# " line that is neither two fields without an arrow nor
\* one or two fields, the arrow, and one or two fields makes
\* parseVendoredModules return an error and no module list; it neither
\* accepts the line nor crashes on it.
C4_MalformedVendorLineFatal ==
    \A k \in 1..Len(vScanned) :
        (IsModuleLine(k) /\ ~RecognizedShape(VendorWords(k))) =>
            /\ vStatus = "returned"
            /\ vErr # NilErr
            /\ vModules = <<>>

VendorDirOf(p) == Clean(vPath \o <<"/", "v", "e", "n", "d", "o", "r", "/">> \o p)

\* C5 as stated: every record parseVendoredModules produces has Directory
\* <root>/vendor/<its path> and Vendored = true, and the Replace record of a
\* replacement line has Directory <root>/vendor/<original's path> and
\* Vendored = true.
C5_Original ==
    \A i \in 1..Len(vModules) :
        LET m == vModules[i] IN
        /\ m.Dir = VendorDirOf(m.Path)
        /\ m.Vendored
        /\ m.Replace # <<>> =>
              m.Replace[1].Dir = VendorDirOf(m.Path) /\ m.Replace[1].Vendored

\* C5 amended: a record without Replace has Directory <root>/vendor/<path>
\* and Vendored = true; for a replacement line the Replace record has
\* Directory <root>/vendor/<original's path> and Vendored = true, while the
\* original's own record has an empty Directory and Vendored = false.
C5_VendorDirectoryDerivation ==
    \A i \in 1..Len(vModules) :
        LET m == vModules[i] IN
        IF m.Replace = <<>>
        THEN m.Dir = VendorDirOf(m.Path) /\ m.Vendored
        ELSE /\ m.Replace[1].Dir = VendorDirOf(m.Path)
             /\ m.Replace[1].Vendored
             /\ m.Dir = <<>>
             /\ ~m.Vendored

\* a plain line and a replacement line naming another path were both parsed
C5_Witness ==
    /\ vStatus = "returned"
    /\ \E i \in 1..Len(vModules) : vModules[i].Replace = <<>>
    /\ \E i \in 1..Len(vModules) :
          /\ vModules[i].Replace # <<>>
          /\ vModules[i].Replace[1].Path # vModules[i].Path

-----------------------------------------------------------------------------
(* Properties of GetModuleVersion *)

\* no tag of the repository both points at the head and is named refs/tags/v...
NoVersionTag(r) ==
    \A k \in 1..Len(r.tags) :
        ~(r.tags[k].hash = r.head[1] /\ HasPrefix(r.tags[k].name, RefsTags \o <<"v">>))

TagStrategyFails(r) == ~r.open \/ r.head = <<>> \/ ~r.tagsOK \/ NoVersionTag(r)

TagFailure(r) ==
    IF ~r.open THEN ErrRepositoryNotExists
    ELSE IF r.head = <<>> THEN ErrReferenceNotFound
    ELSE IF ~r.tagsOK THEN ErrTags ELSE ErrObjectNotFound

PseudoStrategyFails(r) == ~r.open \/ r.head = <<>> \/ r.commit = <<>>

PseudoFailure(r) ==
    IF ~r.open THEN ErrRepositoryNotExists
    ELSE IF r.head = <<>> THEN ErrReferenceNotFound ELSE ErrObjectNotFound

StrategyOrder ==
    /\ verResult.tried # <<>>
    /\ verResult.tried[1] = "GetVersionFromTag"
    /\ Len(verResult.tried) = (IF TagStrategyFails(repo) THEN 2 ELSE 1)
    /\ Len(verResult.tried) = 2 => verResult.tried[2] = "GetPseudoVersion"
    /\ (~TagStrategyFails(repo) \/ ~PseudoStrategyFails(repo)) => verResult.err = NilErr

-----------------------------------------------------------------------------
(* Properties of Module.Private *)

\* the merged pattern set: both inputs split at commas, each entry trimmed,
\* empty entries dropped
MergedPatterns ==
    { q \in { TrimSpace(e) : e \in SeqRange(Split(GONOPROXY, ",")) \cup SeqRange(Split(GOPRIVATE, ",")) } :
        q # <<>> }

Orders(S) ==
    { o \in [1..Cardinality(S) -> S] : \A i, j \in 1..Cardinality(S) : o[i] = o[j] => i = j }

\* C9: for the merged pattern set and the module path, Private returns the
\* same boolean and error for every order of the patterns, and the boolean is
\* true exactly when the path matches at least one pattern of the set.
C9_PrivateOrderInsensitive ==
    privStatus = "returned" =>
        /\ \A o \in Orders(MergedPatterns) : Private(o, privPath) = privResult
        /\ privResult.private <=> \E q \in MergedPatterns : PathMatch(q, privPath).matched

-----------------------------------------------------------------------------
(* Properties of GetModules *)

\* the lines of `go mod graph` that GetModules read
GraphText == IF graphOut = <<>> THEN <<>> ELSE graphOut[1]

\* a non-blank line that is not two whitespace-separated fields
MalformedEdgeLine(text) == Len(Fields(text)) \notin {0, 2}

\* C3: when the edge stream holds a non-blank line that does not consist of
\* exactly two fields, parseModuleGraph reports an error instead of ignoring
\* the line, and GetModules returns no modules and an error that wraps the
\* parse failure.
C3_MalformedEdgeLineFatal ==
    (\E k \in 1..Len(GraphText) : MalformedEdgeLine(GraphText[k])) =>
        /\ pc = "done"
        /\ result.modules = <<>>
        /\ Len(result.err) = 2
        /\ result.err[1] = "parsing module graph failed"
        /\ result.err[2] = "expected two fields per line"

\* a malformed line followed a well-formed one, and GetModules failed on it
C3_Witness ==
    /\ pc = "done"
    /\ Len(GraphText) >= 2
    /\ ~MalformedEdgeLine(GraphText[1])
    /\ MalformedEdgeLine(GraphText[2])
    /\ result.err # NilErr

\* the directory a replacement path names: itself when absolute, otherwise
\* taken from the main module's root
LocalTarget(p) ==
    IF IsAbs(p) THEN Clean(p) ELSE Clean(Abs(rootPath) \o <<"/">> \o p)

UnderModuleCache(dir) == HasPrefix(dir, GetModuleCacheDir)

\* C6: when GetModules succeeds, every module whose Replace path, taken from
\* the main module's root when relative, names a module root outside the
\* module cache has its replacement's Path overwritten with the path that
\* directory declares, whatever the working directory is.
C6_LocalReplacementCoverage ==
    (pc = "done" /\ result.err = NilErr) =>
        \A i \in 1..Len(listed) :
            listed[i].Replace # <<>> =>
                LET target == LocalTarget(listed[i].Replace[1].Path) IN
                (target \in goModDirs /\ ~UnderModuleCache(target)) =>
                    result.modules[i].Replace[1].Path = DeclaredPath(target)

\* the call of resolveLocalModule logged at k got past the module cache test
PastCacheTest(e) == ~(IsGoModule(e.before.Dir) /\ UnderModuleCache(e.before.Dir))

\* ... and reached version resolution, where both strategies failed
VersionResolutionFailed(e) ==
    /\ PastCacheTest(e)
    /\ LocalTarget(e.before.Path) \in goModDirs
    /\ e.getModuleOK
    /\ e.before.Version = <<>>
    /\ TagStrategyFails(e.repo) /\ PseudoStrategyFails(e.repo)

ResolveFailed ==
    pc = "done" /\ result.err # NilErr /\ result.err[1] = "resolving local module failed"

\* C7: a call of resolveLocalModule that reaches version resolution for a
\* replacement without version and finds GetModuleVersion failing returns no
\* error, leaves Version empty and Path set to the discovered path, and
\* GetModules goes on; a call whose replacement directory is not a module
\* root returns ErrNoGoModule, and GetModules returns it wrapped.
C7_VersionFailureNotFatal ==
    \A k \in 1..Len(resolveLog) :
        LET e == resolveLog[k] IN
        /\ VersionResolutionFailed(e) =>
              /\ e.err = NilErr
              /\ e.after.Version = <<>>
              /\ e.after.Path = DeclaredPath(LocalTarget(e.before.Path))
              /\ ~(ResolveFailed /\ k = Len(resolveLog))
              /\ (pc = "done" /\ result.err = NilErr) =>
                    /\ result.modules[e.i].Replace[1].Version = <<>>
                    /\ result.modules[e.i].Replace[1].Path = e.after.Path
        /\ (PastCacheTest(e) /\ LocalTarget(e.before.Path) \notin goModDirs) =>
              /\ e.err = ErrNoGoModule
              /\ pc = "done"
              /\ result = [modules |-> <<>>, err |-> Wrap("resolving local module failed", ErrNoGoModule)]

\* version resolution failed for a local replacement and GetModules returned
\* the graph all the same
C7_Witness ==
    /\ pc = "done"
    /\ result.err = NilErr
    /\ \E k \in 1..Len(resolveLog) : VersionResolutionFailed(resolveLog[k])

\* C10 as stated: no version of a local replacement is resolved before graph
\* assembly has finished.
C10_Original ==
    \A k \in 1..Len(resolveLog) : resolveLog[k].reached = "version" => graphOut # <<>>

\* C10 amended: local replacements are resolved, version included, before
\* graph assembly begins: once parseModuleGraph has run, resolveLocalModule
\* has been called for every module the replacement loop selects.
C10_ResolutionBeforeGraph ==
    graphOut # <<>> =>
        /\ ResolveLoopDone(idx, moduleSlice)
        /\ \A i \in 1..Len(listed) :
              ~SkipsModule(listed[i]) => \E k \in 1..Len(resolveLog) : resolveLog[k].i = i

\* a version was resolved for the last module's replacement, then edges were
\* linked
C10_Witness ==
    /\ pc = "done"
    /\ result.err = NilErr
    /\ \E k \in 1..Len(resolveLog) :
          resolveLog[k].reached = "version" /\ resolveLog[k].i = Len(listed)
    /\ \E i \in 1..Len(result.modules) : result.modules[i].Dependencies # <<>>

\* the flat list (main, A, B) without replacements and the edge list
\* `main A`, `A B`
FlatScenario ==
    /\ pc = "done"
    /\ result.err = NilErr
    /\ Len(listed) = 3
    /\ \A i \in 1..3 : listed[i].Replace = <<>>
    /\ graphOut = << << Coordinates(listed[1]) \o <<" ">> \o Coordinates(listed[2]),
                       Coordinates(listed[2]) \o <<" ">> \o Coordinates(listed[3]) >> >>

\* the scenario gives main.Dependencies = [A], A.Dependencies = [B] and
\* B.Dependencies = []
FlatScenarioGraph ==
    FlatScenario =>
        /\ Len(result.modules) = 3
        /\ result.modules[1].Dependencies = << <<2, 0>> >>
        /\ result.modules[2].Dependencies = << <<3, 0>> >>
        /\ result.modules[3].Dependencies = <<>>

=============================================================================
